---- MODULE Spec2Model ----
(***************************************************************************)
(* Model of src/main.py: the request flow of download_media_from_instagram *)
(* (validate URL, GET the form page, scrape tokens, POST the link, parse   *)
(* the result page, classify anchors, re-host eligible links, assemble the *)
(* response), with get_initial_form_data and upload_to_cloudinary.         *)
(*                                                                         *)
(* Strings the code searches character by character (anchor texts, hrefs,  *)
(* keywords) are sequences of one-character strings.  A page body is the   *)
(* set of the phrases that occur in it; lower-casing maps each phrase to   *)
(* its lower-case form.  Whatever the target site or the re-host provider  *)
(* returns is an input, drawn with \E when the code first reads it.        *)
(***************************************************************************)
EXTENDS Integers, Sequences, FiniteSets, TLC

\* ------------------------------------------------------------------ bounds
\* candidate media blocks per result page
MaxBlocks == 2
\* <a> elements per result page
MaxAnchors == 2
\* phrases per page body
MaxPhrases == 2

\* ------------------------------------------------------- character strings
RECURSIVE LowerSeq(_)
LowerChar(c) ==
    CASE c = "H" -> "h" [] c = "D" -> "d" [] c = "S" -> "s" [] c = "G" -> "g"
      [] c = "V" -> "v" [] c = "L" -> "l" [] c = "Q" -> "q" [] c = "O" -> "o"
      [] OTHER -> c
\* str.lower()
LowerSeq(s) == IF s = <<>> THEN <<>> ELSE <<LowerChar(Head(s))>> \o LowerSeq(Tail(s))

\* `k in t` on strings
IsSubstr(k, t) ==
    \E i \in 1..(Len(t) - Len(k) + 1) : SubSeq(t, i, i + Len(k) - 1) = k

\* variant: the suffix is looked for anywhere in the string
EndsWithContains(s, suffix) == IsSubstr(suffix, s)
\* str.endswith
EndsWith(s, suffix) ==
    /\ Len(s) >= Len(suffix)
    /\ SubSeq(s, Len(s) - Len(suffix) + 1, Len(s)) = suffix

RECURSIVE StripLeft(_)
StripLeft(s) == IF s # <<>> /\ Head(s) = " " THEN StripLeft(Tail(s)) ELSE s
RECURSIVE StripRight(_)
StripRight(s) ==
    IF s # <<>> /\ s[Len(s)] = " " THEN StripRight(SubSeq(s, 1, Len(s) - 1)) ELSE s
\* get_text(strip=True) of an anchor holding one text node
Strip(s) == StripRight(StripLeft(s))

RECURSIVE Concat(_)
Concat(ss) == IF ss = <<>> THEN <<>> ELSE Head(ss) \o Concat(Tail(ss))

\* any(keyword in link_text for keyword in [...])
AnyKeyword(keywords, text) == \E k \in keywords : IsSubstr(k, text)

\* ------------------------------------------------------------ dictionaries
EmptyDict == <<>>
\* d[k] = v
DictSet(d, k, v) == (k :> v) @@ d

\* ------------------------------------------------------------- page bodies
VerifyPhrase == "Verify you are human"
Phrases ==
    { "Verify you are human", "verify you are human", "captcha", "CAPTCHA",
      "private account", "Private Account", "link you entered is invalid",
      "no media found" }
LowerPhrase(p) ==
    CASE p = "Verify you are human" -> "verify you are human"
      [] p = "CAPTCHA" -> "captcha"
      [] p = "Private Account" -> "private account"
      [] OTHER -> p
\* response.text.lower()
LowerText(text) == { LowerPhrase(p) : p \in text }
\* `phrase in text`
Contains(text, phrase) == phrase \in text
PageTexts == { t \in SUBSET Phrases : Cardinality(t) <= MaxPhrases }
\* a body the handler has not searched
NotRead == { "<not read>" }

\* challenge markers: "Verify you are human" in text or "captcha" in text.lower()
ChallengeMarker(text) ==
    Contains(text, VerifyPhrase) \/ Contains(LowerText(text), "captcha")

\* ------------------------------------------------------------ URL validator
\* A URL string is the sequence of its lexical parts.
UrlEmpty == <<>>
UrlNoScheme == <<"www.instagram.com", "/p/x/">>
UrlText == <<"not a url">>
UrlNoHost == <<"https", "://">>
UrlPost == <<"https", "://", "www.instagram.com", "/p/x/">>
Urls == { UrlEmpty, UrlNoScheme, UrlText, UrlNoHost, UrlPost }
\* variant: any non-empty text passes
HttpUrlValidLax(u) == Len(u) >= 1
\* HttpUrl(instagram_url) does not raise
HttpUrlValid(u) ==
    /\ Len(u) >= 3
    /\ u[1] \in { "http", "https" }
    /\ u[2] = "://"
    /\ u[3] # ""

\* ------------------------------------------------------ form-token fetcher
RequiredFields == << "referer", "locale", "p", "_token" >>
FieldValue(f) ==
    CASE f = "referer" -> "r" [] f = "locale" -> "en" [] f = "p" -> "p1"
      [] OTHER -> "t1"
\* An input tag of the form: absent, present without a value attribute, or
\* present with a value (the empty string for p and _token included).
NoTag == [tag |-> FALSE, hasvalue |-> FALSE, value |-> ""]
NoValue == [tag |-> TRUE, hasvalue |-> FALSE, value |-> ""]
Valued(v) == [tag |-> TRUE, hasvalue |-> TRUE, value |-> v]
FieldStates(f) ==
    { NoTag, NoValue, Valued(FieldValue(f)) }
        \cup (IF f \in { "p", "_token" } THEN { Valued("") } ELSE {})
Forms ==
    { fs \in [ { RequiredFields[i] : i \in 1..4 } ->
                 { NoTag, NoValue, Valued(""), Valued("r"), Valued("en"),
                   Valued("p1"), Valued("t1") } ] :
        \A i \in 1..4 : fs[RequiredFields[i]] \in FieldStates(RequiredFields[i]) }
NoForm == [ f \in { RequiredFields[i] : i \in 1..4 } |-> NoTag ]

\* not input_tag or 'value' not in input_tag.attrs
FieldMissing(fs, f) == ~fs[f].tag \/ ~fs[f].hasvalue
\* index of the first required field the loop fails on, 0 when none
FirstMissing(fs) ==
    IF \E i \in 1..4 : FieldMissing(fs, RequiredFields[i])
    THEN CHOOSE i \in 1..4 :
           /\ FieldMissing(fs, RequiredFields[i])
           /\ \A j \in 1..(i - 1) : ~FieldMissing(fs, RequiredFields[j])
    ELSE 0

Err(status, kind) == [status |-> status, kind |-> kind]
Pending == Err(0, "pending")
NoError == Err(0, "none")
Ok == Err(200, "ok")

\* the HTTPException raised for a URL that does not validate
ValidateError(u) ==
    IF HttpUrlValid(u) THEN NoError ELSE Err(400, "InvalidInput")

\* variant: the required fields are not checked
GetFormErrorNoFields(outcome, has_form, text, fs) ==
    IF outcome = "timeout" THEN Err(504, "UpstreamTimeout")
    ELSE IF outcome = "error" THEN Err(503, "UpstreamUnavailable")
    ELSE IF ~has_form
         THEN IF ChallengeMarker(text)
              THEN Err(403, "ChallengeDetected")
              ELSE Err(500, "UpstreamShapeChanged")
    ELSE NoError
\* variant: a missing form is reported before the body is searched
GetFormErrorShapeFirst(outcome, has_form, text, fs) ==
    IF outcome = "timeout" THEN Err(504, "UpstreamTimeout")
    ELSE IF outcome = "error" THEN Err(503, "UpstreamUnavailable")
    ELSE IF ~has_form THEN Err(500, "UpstreamShapeChanged")
    ELSE IF FirstMissing(fs) # 0 THEN Err(500, "UpstreamShapeChanged")
    ELSE NoError
\* the HTTPException get_initial_form_data raises, NoError when it returns
GetFormError(outcome, has_form, text, fs) ==
    IF outcome = "timeout" THEN Err(504, "UpstreamTimeout")
    ELSE IF outcome = "error" THEN Err(503, "UpstreamUnavailable")
    ELSE IF ~has_form
         THEN IF ChallengeMarker(text)
              THEN Err(403, "ChallengeDetected")
              ELSE Err(500, "UpstreamShapeChanged")
    ELSE IF FirstMissing(fs) # 0 THEN Err(500, "UpstreamShapeChanged")
    ELSE NoError
\* scraped_data
ScrapedData(fs) == [ f \in DOMAIN fs |-> fs[f].value ]
NoData == [ f \in { RequiredFields[i] : i \in 1..4 } |-> "" ]

\* ---------------------------------------------------------- link submitter
\* str(validated_url): the URL as text, with the empty path written "/"
StrUrl(u) == IF Len(u) = 3 THEN u \o << "/" >> ELSE u
Payload(form_data, u) ==
    [ referer |-> form_data["referer"], locale |-> form_data["locale"],
      p |-> form_data["p"], _token |-> form_data["_token"], link |-> StrUrl(u) ]
NoPayload == [ referer |-> "", locale |-> "", p |-> "", _token |-> "", link |-> <<>> ]
\* variant: only the _token is looked at
TokensMissingTokenOnly(payload) == payload._token = ""
\* not payload['_token'] or not payload['p']
TokensMissing(payload) == payload._token = "" \/ payload.p = ""
\* the HTTPException raised before the POST when a critical token is empty
TokenError(payload) ==
    IF TokensMissing(payload) THEN Err(500, "InternalInconsistency") ELSE NoError

\* status of a response a RequestException carries: raise_for_status gives
\* 4xx and 5xx, an exhausted redirect chain gives the last 3xx
PostFailStatuses == { 302, 400, 403, 404, 429, 500, 502 }
\* variant: the status 429 is looked at before the body
PostErrorStatusFirst(outcome, status, text) ==
    IF outcome = "timeout" THEN Err(504, "UpstreamTimeout")
    ELSE IF outcome = "http_error"
    THEN IF status = 429 THEN Err(429, "RateLimited")
         ELSE IF ChallengeMarker(text) THEN Err(403, "ChallengeDetected")
         ELSE Err(IF status >= 400 THEN status ELSE 503, "UpstreamRequestFailed")
    ELSE Err(503, "UpstreamRequestFailed")
\* variant: the status 429 has no case of its own
PostErrorNoRateLimit(outcome, status, text) ==
    IF outcome = "timeout" THEN Err(504, "UpstreamTimeout")
    ELSE IF outcome = "http_error"
    THEN IF ChallengeMarker(text) THEN Err(403, "ChallengeDetected")
         ELSE Err(IF status >= 400 THEN status ELSE 503, "UpstreamRequestFailed")
    ELSE Err(503, "UpstreamRequestFailed")
\* the HTTPException raised for a failed POST
PostError(outcome, status, text) ==
    IF outcome = "timeout" THEN Err(504, "UpstreamTimeout")
    ELSE IF outcome = "http_error"
    THEN IF ChallengeMarker(text) THEN Err(403, "ChallengeDetected")
         ELSE IF status = 429 THEN Err(429, "RateLimited")
         ELSE Err(IF status >= 400 THEN status ELSE 503, "UpstreamRequestFailed")
    ELSE Err(503, "UpstreamRequestFailed")

\* the error raised while locating the results, NoError when parsing goes on
ParseError(alert, container, text) ==
    IF alert THEN Err(400, "UpstreamReportedError")
    ELSE IF ~container /\ ChallengeMarker(text) THEN Err(403, "ChallengeDetected")
    ELSE NoError

\* variant: "no media found" is looked for first
NoMediaErrorNotFoundFirst(text) ==
    IF Contains(LowerText(text), "no media found") THEN Err(404, "NotFound")
    ELSE IF Contains(LowerText(text), "private account") THEN Err(403, "AccessDenied")
    ELSE IF Contains(LowerText(text), "link you entered is invalid")
    THEN Err(400, "InvalidUpstreamTarget")
    ELSE Err(404, "NoMediaExtracted")
\* the error raised when no media item was extracted
NoMediaError(text) ==
    IF Contains(LowerText(text), "private account") THEN Err(403, "AccessDenied")
    ELSE IF Contains(LowerText(text), "link you entered is invalid")
    THEN Err(400, "InvalidUpstreamTarget")
    ELSE IF Contains(LowerText(text), "no media found") THEN Err(404, "NotFound")
    ELSE Err(404, "NoMediaExtracted")

\* --------------------------------------------------------------- classifier
HighKeywords ==
    { <<"h", "i", "g", "h">>,
      <<"h", "d">>,
      <<"1", "0", "8", "0", "p">>,
      <<"7", "2", "0", "p">>,
      <<"f", "u", "l", "l">> }
LowKeywords ==
    { <<"l", "o", "w">>,
      <<"s", "d">>,
      <<"4", "8", "0", "p">>,
      <<"3", "6", "0", "p">>,
      <<"s", "m", "a", "l", "l">> }
OriginalKeywords ==
    { <<"o", "r", "i", "g", "i", "n", "a", "l">>,
      <<"s", "o", "u", "r", "c", "e">>,
      <<"r", "a", "w">> }
ThumbnailKeywords ==
    { <<"t", "h", "u", "m", "b", "n", "a", "i", "l">>,
      <<"t", "h", "u", "m", "b">>,
      <<"p", "r", "e", "v", "i", "e", "w">> }
MediumKeywords ==
    { <<"m", "e", "d", "i", "u", "m">>,
      <<"m", "i", "d">>,
      <<"s", "t", "a", "n", "d", "a", "r", "d">> }
DownloadKeyword == <<"d", "o", "w", "n", "l", "o", "a", "d">>
VideoKeyword == <<"v", "i", "d", "e", "o">>
DlSuffix == <<"&", "d", "l", "=", "1">>

\* anchor texts, captions and hrefs of the pages enumerated; Href3 holds
\* "&dl=1" without ending with it
TextHD == <<"H", "D", " ", "D", "o", "w", "n", "l", "o", "a", "d">>
TextHdLower == <<"h", "d", " ", "d", "o", "w", "n", "l", "o", "a", "d">>
TextSD == <<" ", "S", "D", " ">>
TextGet == <<"G", "e", "t">>
TextDownload == <<"D", "o", "w", "n", "l", "o", "a", "d">>
TextLowHD == <<"L", "o", "w", " ", "H", "D">>
TextOriginalPreview ==
    <<"O", "r", "i", "g", "i", "n", "a", "l", " ", "p", "r", "e", "v", "i", "e", "w">>
TextThumb == <<"t", "h", "u", "m", "b">>
TextStandard == <<"S", "t", "a", "n", "d", "a", "r", "d">>
CaptionVideo == <<"V", "i", "d", "e", "o">>
Href1 == <<"u", "1">>
Href2 == <<"u", "2", "&", "d", "l", "=", "1">>
Href3 == <<"u", "3", "&", "d", "l", "=", "1", "0">>

AnchorTexts == { TextHD, TextGet }
Hrefs == { Href1, Href2, Href3 }
\* an <a> element without href
NoHref == << "<no href>" >>
Anchor(text, href) == [text |-> text, href |-> href]
Anchors == { Anchor(t, h) : t \in AnchorTexts, h \in Hrefs \cup { NoHref } }
RECURSIVE SeqsUpTo(_, _)
SeqsUpTo(S, n) ==
    IF n = 0 THEN { <<>> }
    ELSE LET shorter == SeqsUpTo(S, n - 1)
         IN shorter \cup { Append(q, x) : q \in { r \in shorter : Len(r) = n - 1 }, x \in S }
\* a div.col-md-4.text-center: nested <video>, nested <img>, caption text, and
\* the anchors of its div.btn-group-vertical when it has one
Block(v, i, c, b, a) ==
    [video |-> v, img |-> i, caption |-> c, btn_group |-> b, anchors |-> a]
\* the blocks enumerated: a video element, or an image with or without the
\* caption; no button group, or one with at most n anchors
Blocks(n) ==
    { Block(m[1], m[2], m[3], b, a) :
        m \in { << TRUE, FALSE, <<>> >>, << FALSE, TRUE, <<>> >>,
                << FALSE, TRUE, CaptionVideo >> },
        b \in BOOLEAN,
        a \in SeqsUpTo(Anchors, n) }

\* link_tag.get_text(strip=True).lower()
LinkText(anchor) == LowerSeq(Strip(anchor.text))
\* item.get_text().lower()
BlockText(block) ==
    LowerSeq(block.caption
             \o Concat([ i \in 1..Len(block.anchors) |-> block.anchors[i].text ]))
MediaType(block) ==
    IF block.video \/ IsSubstr(VideoKeyword, BlockText(block)) THEN "video"
    ELSE IF block.img THEN "image"
    ELSE "image"
\* btn_group.find_all('a', href=True), nothing when there is no btn_group
LinksInGroup(block) ==
    IF block.btn_group
    THEN SelectSeq(block.anchors, LAMBDA a : a.href # NoHref)
    ELSE <<>>

\* the quality_key chosen by the keyword chain
QualityKey(link_text, link_idx) ==
    IF AnyKeyword(HighKeywords, link_text) THEN "high_quality"
    ELSE IF AnyKeyword(LowKeywords, link_text) THEN "low_quality"
    ELSE IF AnyKeyword(OriginalKeywords, link_text) THEN "original"
    ELSE IF AnyKeyword(ThumbnailKeywords, link_text) THEN "thumbnail"
    ELSE IF AnyKeyword(MediumKeywords, link_text) THEN "medium_quality"
    ELSE IF IsSubstr(DownloadKeyword, link_text) THEN "standard_download"
    ELSE "download_option_" \o ToString(link_idx + 1)
RECURSIVE Suffixed(_, _, _)
Suffixed(original_quality_key, counter, links) ==
    LET quality_key == original_quality_key \o "_" \o ToString(counter)
    IN IF quality_key \in DOMAIN links
       THEN Suffixed(original_quality_key, counter + 1, links)
       ELSE quality_key
\* variant: the key of the keyword chain is used as it is
UniqueKeyNoSuffix(quality_key, links) == quality_key
\* while quality_key in download_links: append _counter
UniqueKey(quality_key, links) ==
    IF quality_key \in DOMAIN links THEN Suffixed(quality_key, 1, links)
    ELSE quality_key

\* --------------------------------------------------------------- re-hoster
\* what cloudinary.uploader.upload and cloudinary_url do for one call
UploadOutcomes == { "raises", "no_secure_url", "transform_fails", "ok" }
None == "<None>"
\* cloudinary.uploader.upload is reached
UploadCalled(media_url, configured) == EndsWith(media_url, DlSuffix) /\ configured
\* the value upload_to_cloudinary returns
UploadToCloudinary(media_url, configured, outcome) ==
    IF ~EndsWith(media_url, DlSuffix) THEN None
    ELSE IF ~configured THEN None
    ELSE IF outcome = "raises" THEN None
    ELSE IF outcome = "no_secure_url" THEN None
    ELSE IF outcome = "transform_fails" THEN "secure_url"
    ELSE "optimized_url"
\* variant: the returned value is stored whatever it is
AddCloudinaryUrlAlways(urls, quality_key, cloudinary_url) ==
    DictSet(urls, quality_key, cloudinary_url)
\* if cloudinary_url: cloudinary_urls[quality_key] = cloudinary_url
AddCloudinaryUrl(urls, quality_key, cloudinary_url) ==
    IF cloudinary_url # None THEN DictSet(urls, quality_key, cloudinary_url) ELSE urls

\* ------------------------------------------------------------ response
MediaItem(media_number, media_type, links, urls) ==
    [ media_number |-> media_number, media_type |-> media_type,
      download_links |-> links, cloudinary_urls |-> urls ]
\* variant: the enumerate index itself
MediaNumberZeroBased(item_idx) == item_idx
\* enumerate(media_items): media_number = item_idx + 1
MediaNumber(item_idx) == item_idx + 1
\* variant: the item is appended whatever it holds
AppendItemAlways(media, item) == Append(media, item)
\* if download_links: categorized_media.append(media_item)
AppendItem(media, item) ==
    IF item.download_links # EmptyDict THEN Append(media, item) ELSE media
DownloadResponse(media) ==
    [ total_media_count |-> Len(media), media_items |-> media ]
NoResponse == [ total_media_count |-> 0 - 1, media_items |-> <<>> ]
\* an outbound call; an upload carries the arguments of upload_to_cloudinary
\* and the position of its anchor
Call(op, media_url, media_number, link_idx, quality) ==
    [ op |-> op, media_url |-> media_url, media_number |-> media_number,
      link_idx |-> link_idx, quality |-> quality ]
GetCall == Call("GET", <<>>, 0, 0, "")
PostCall == Call("POST", <<>>, 0, 0, "")

\* ------------------------------------------------------------------- state
VARIABLES
    pc,                \* where the handler is
    instagram_url,     \* the query parameter
    configured,        \* all three Cloudinary settings are non-empty
    get_response,      \* what the GET returned
    form_data,         \* the scraped tokens
    payload,           \* the POST body
    post_response,     \* what the POST returned
    item_idx,          \* candidate blocks enumerated so far
    media_number,
    media_type,
    links_in_group,
    link_idx,          \* anchors of the current block processed so far
    download_links,
    cloudinary_urls,
    categorized_media,
    candidates,        \* per candidate block: "kept", "no_btn_group", "no_links"
    anchors_seen,      \* <a> elements of the blocks enumerated so far
    failed_uploads,    \* re-host attempts that returned no URL
    calls,             \* outbound calls in the order they were made
    result,            \* status and kind of the outcome
    earlier,           \* the outcome of an earlier request, when two are compared
    response           \* the DownloadResponse returned

vars ==
    << pc, instagram_url, configured, get_response, form_data, payload,
       post_response, item_idx, media_number, media_type, links_in_group,
       link_idx, download_links, cloudinary_urls, categorized_media,
       candidates, anchors_seen, failed_uploads, calls, result, earlier,
       response >>

GetResponse(outcome, has_form, text, fs) ==
    [ outcome |-> outcome, has_form |-> has_form, text |-> text, fields |-> fs ]
PostResponse(outcome, status, alert, container, text) ==
    [ outcome |-> outcome, status |-> status, alert |-> alert,
      container |-> container, text |-> text ]
NoGet == GetResponse("none", FALSE, NotRead, NoForm)
NoPost == PostResponse("none", 0, FALSE, FALSE, NotRead)

Init ==
    /\ pc = "start"
    /\ instagram_url \in Urls
    /\ configured \in BOOLEAN
    /\ get_response = NoGet
    /\ form_data = NoData
    /\ payload = NoPayload
    /\ post_response = NoPost
    /\ item_idx = 0
    /\ media_number = 0
    /\ media_type = "image"
    /\ links_in_group = <<>>
    /\ link_idx = 0
    /\ download_links = EmptyDict
    /\ cloudinary_urls = EmptyDict
    /\ categorized_media = <<>>
    /\ candidates = <<>>
    /\ anchors_seen = 0
    /\ failed_uploads = {}
    /\ calls = <<>>
    /\ result = Pending
    /\ earlier = Pending
    /\ response = NoResponse

\* the request ends with an HTTPException
Raise(err) ==
    /\ result' = err
    /\ pc' = "done"

\* lines 226-230
ValidateUrl ==
    /\ pc = "start"
    /\ IF ValidateError(instagram_url) = NoError
       THEN /\ pc' = "fetch"
            /\ result' = result
       ELSE Raise(ValidateError(instagram_url))
    /\ UNCHANGED << instagram_url, configured, get_response, form_data, payload,
                    post_response, item_idx, media_number, media_type,
                    links_in_group, link_idx, download_links, cloudinary_urls,
                    categorized_media, candidates, anchors_seen, failed_uploads, calls, earlier, response >>

\* the responses the GET can bring: the body is searched only when the form
\* is absent, the fields only when it is present
GetResponses ==
    { GetResponse(o, FALSE, NotRead, NoForm) : o \in { "timeout", "error" } }
        \cup { GetResponse("ok", FALSE, t, NoForm) : t \in PageTexts }
        \cup { GetResponse("ok", TRUE, NotRead, fs) : fs \in Forms }

\* lines 236-242 with get_initial_form_data, lines 63-101
GetInitialFormData ==
    /\ pc = "fetch"
    /\ \E r \in GetResponses :
         LET err == GetFormError(r.outcome, r.has_form, r.text, r.fields)
         IN /\ get_response' = r
            /\ calls' = Append(calls, GetCall)
            /\ IF err # NoError
               THEN /\ Raise(err)
                    /\ form_data' = form_data
               ELSE /\ form_data' = ScrapedData(r.fields)
                    /\ pc' = "submit"
                    /\ result' = result
    /\ UNCHANGED << instagram_url, configured, payload, post_response, item_idx,
                    media_number, media_type, links_in_group, link_idx,
                    download_links, cloudinary_urls, categorized_media,
                    candidates, anchors_seen, failed_uploads, earlier, response >>

\* the responses the POST can bring: a failure carries a status and a body
\* only when the exception holds a response; the body of a parsed page is
\* drawn here when lines 294-381 decide on it and in Finish otherwise
\* (nothing in between reads it)
PostResponses ==
    { PostResponse(o, 0, FALSE, FALSE, NotRead) : o \in { "timeout", "no_response" } }
        \cup { PostResponse("http_error", s, FALSE, FALSE, t) :
                 s \in PostFailStatuses, t \in PageTexts }
        \cup { PostResponse("ok", 200, TRUE, c, t) : c \in BOOLEAN, t \in PageTexts }
        \cup { PostResponse("ok", 200, FALSE, FALSE, t) : t \in PageTexts }
        \cup { PostResponse("ok", 200, FALSE, TRUE, NotRead) }

\* lines 244-305 and 376-381
SubmitLink ==
    /\ pc = "submit"
    /\ payload' = Payload(form_data, instagram_url)
    /\ IF TokenError(payload') # NoError
       THEN /\ Raise(TokenError(payload'))
            /\ UNCHANGED << post_response, calls >>
       ELSE \E r \in PostResponses :
              LET err == IF r.outcome # "ok"
                         THEN PostError(r.outcome, r.status, r.text)
                         ELSE ParseError(r.alert, r.container, r.text)
              IN /\ post_response' = r
                 /\ calls' = Append(calls, PostCall)
                 /\ IF err # NoError
                    THEN Raise(err)
                    ELSE /\ pc' = IF r.container THEN "blocks" ELSE "assemble"
                         /\ result' = result
    /\ UNCHANGED << instagram_url, configured, get_response, form_data, item_idx,
                    media_number, media_type, links_in_group, link_idx,
                    download_links, cloudinary_urls, categorized_media,
                    candidates, anchors_seen, failed_uploads, earlier, response >>

\* lines 307-322 and 362-373 for a block that has no link to process
BeginBlock ==
    /\ pc = "blocks"
    /\ item_idx < MaxBlocks
    /\ \E block \in Blocks(MaxAnchors - anchors_seen) :
         /\ block.btn_group \/ block.anchors = <<>>
         /\ anchors_seen' = anchors_seen + Len(block.anchors)
         /\ media_number' = MediaNumber(item_idx)
         /\ item_idx' = item_idx + 1
         /\ media_type' = MediaType(block)
         /\ links_in_group' = LinksInGroup(block)
         /\ link_idx' = 0
         /\ download_links' = IF block.btn_group THEN EmptyDict ELSE download_links
         /\ cloudinary_urls' =
              IF LinksInGroup(block) # <<>> THEN EmptyDict ELSE cloudinary_urls
         /\ IF LinksInGroup(block) # <<>>
            THEN /\ pc' = "links"
                 /\ UNCHANGED << categorized_media, candidates >>
            ELSE /\ pc' = "blocks"
                 /\ categorized_media' =
                      IF block.btn_group
                      THEN AppendItem(categorized_media,
                                      MediaItem(media_number', media_type',
                                                download_links', cloudinary_urls'))
                      ELSE categorized_media
                 /\ candidates' =
                      Append(candidates,
                             IF block.btn_group THEN "no_links" ELSE "no_btn_group")
    /\ UNCHANGED << instagram_url, configured, get_response, form_data, payload,
                    post_response, failed_uploads, calls, result, earlier, response >>

\* lines 325-360 for one anchor, and lines 362-369 after the last one
ProcessLink ==
    /\ pc = "links"
    /\ LET link_tag == links_in_group[link_idx + 1]
           link_url == link_tag.href
           quality_key == UniqueKey(QualityKey(LinkText(link_tag), link_idx),
                                    download_links)
           called == UploadCalled(link_url, configured)
       IN \E outcome \in IF called THEN UploadOutcomes ELSE { "not_called" } :
            LET cloudinary_url == UploadToCloudinary(link_url, configured, outcome)
            IN /\ download_links' = DictSet(download_links, quality_key, link_url)
               /\ cloudinary_urls' =
                    AddCloudinaryUrl(cloudinary_urls, quality_key, cloudinary_url)
               /\ calls' = IF called
                           THEN Append(calls, Call("UPLOAD", link_url, media_number,
                                                   link_idx, quality_key))
                           ELSE calls
               /\ failed_uploads' =
                    IF called /\ outcome \in { "raises", "no_secure_url" }
                    THEN failed_uploads
                           \cup { [ media_number |-> media_number,
                                    quality |-> quality_key, href |-> link_url ] }
                    ELSE failed_uploads
    /\ link_idx' = link_idx + 1
    /\ IF link_idx' = Len(links_in_group)
       THEN /\ categorized_media' =
                 AppendItem(categorized_media,
                            MediaItem(media_number, media_type,
                                      download_links', cloudinary_urls'))
            /\ candidates' = Append(candidates, "kept")
            /\ pc' = "blocks"
       ELSE /\ pc' = "links"
            /\ UNCHANGED << categorized_media, candidates >>
    /\ UNCHANGED << instagram_url, configured, get_response, form_data, payload,
                    post_response, item_idx, media_number, media_type,
                    links_in_group, anchors_seen, result, earlier, response >>

\* lines 384-402, once the blocks of the page are exhausted
Finish ==
    /\ pc \in { "blocks", "assemble" }
    /\ IF categorized_media = <<>>
       THEN \E text \in IF post_response.text = NotRead
                        THEN PageTexts ELSE { post_response.text } :
              /\ post_response' = [post_response EXCEPT !.text = text]
              /\ Raise(NoMediaError(text))
              /\ response' = response
       ELSE /\ response' = DownloadResponse(categorized_media)
            /\ result' = Ok
            /\ pc' = "done"
            /\ post_response' = post_response
    /\ UNCHANGED << instagram_url, configured, get_response, form_data, payload,
                    item_idx, media_number, media_type, links_in_group, link_idx,
                    download_links, cloudinary_urls, categorized_media,
                    candidates, anchors_seen, failed_uploads, calls, earlier >>

Next ==
    \/ ValidateUrl
    \/ GetInitialFormData
    \/ SubmitLink
    \/ BeginBlock
    \/ ProcessLink
    \/ Finish

Spec == Init /\ [][Next]_vars

\* ----------------------------------------------- error kinds side by side
\* The errors the request flow raises, each raise site applied to every
\* response it can see.
RaisedErrors ==
    ( { ValidateError(u) : u \in Urls }
        \cup { GetFormError(r.outcome, r.has_form, r.text, r.fields) : r \in GetResponses }
        \cup { TokenError(Payload(ScrapedData(fs), UrlPost)) :
                 fs \in { g \in Forms : FirstMissing(g) = 0 } }
        \cup { PostError(r.outcome, r.status, r.text) :
                 r \in { q \in PostResponses : q.outcome # "ok" } }
        \cup { ParseError(r.alert, r.container, r.text) :
                 r \in { q \in PostResponses : q.outcome = "ok" } }
        \cup { NoMediaError(t) : t \in PageTexts } ) \ { NoError }

InitErrors ==
    /\ Init
    /\ instagram_url = UrlPost
    /\ configured

\* a first request fails
FirstFailure ==
    /\ pc = "start"
    /\ \E e \in RaisedErrors : earlier' = e
    /\ pc' = "second"
    /\ UNCHANGED << instagram_url, configured, get_response, form_data, payload,
                    post_response, item_idx, media_number, media_type,
                    links_in_group, link_idx, download_links, cloudinary_urls,
                    categorized_media, candidates, anchors_seen, failed_uploads,
                    calls, result, response >>

\* a second request fails
SecondFailure ==
    /\ pc = "second"
    /\ \E e \in RaisedErrors : result' = e
    /\ pc' = "compared"
    /\ UNCHANGED << instagram_url, configured, get_response, form_data, payload,
                    post_response, item_idx, media_number, media_type,
                    links_in_group, link_idx, download_links, cloudinary_urls,
                    categorized_media, candidates, anchors_seen, failed_uploads,
                    calls, earlier, response >>

NextErrors ==
    \/ FirstFailure
    \/ SecondFailure

SpecErrors == InitErrors /\ [][NextErrors]_vars

\* every outcome of the request flow is one the raise sites above produce
ResultIsRaised == result \in RaisedErrors \cup { Pending, Ok }

\* ------------------------------------------------------- labels of a block
\* the labelling of the anchors of one block, taken on its own: the anchor
\* texts enumerated, one per class of the keyword chain and some that hold
\* keywords of two classes
MaxLabelled == 3
LabelTexts ==
    { TextHD, TextHdLower, TextSD, TextGet, TextDownload, TextLowHD,
      TextOriginalPreview, TextThumb, TextStandard }
\* the href of the anchor at a position of the button group, one per position
PosHref(position) == << "u", ToString(position) >>
\* a button group: its anchors carry the texts, each with the href of its
\* position or without one
LabelGroup(texts, with_href) ==
    [ i \in 1..Len(texts) |->
        Anchor(texts[i], IF i \in with_href THEN PosHref(i) ELSE NoHref) ]

InitLabels ==
    /\ pc = "labels"
    /\ instagram_url = UrlPost
    /\ configured = FALSE
    /\ get_response = NoGet
    /\ form_data = NoData
    /\ payload = NoPayload
    /\ post_response = NoPost
    /\ item_idx = 0
    /\ media_number = 1
    /\ media_type = "image"
    /\ \E n \in 0..MaxLabelled :
         \E texts \in [ 1..n -> LabelTexts ], with_href \in SUBSET (1..n) :
           links_in_group =
             LinksInGroup(Block(FALSE, TRUE, <<>>, TRUE, LabelGroup(texts, with_href)))
    /\ link_idx = 0
    /\ download_links = EmptyDict
    /\ cloudinary_urls = EmptyDict
    /\ categorized_media = <<>>
    /\ candidates = <<>>
    /\ anchors_seen = 0
    /\ failed_uploads = {}
    /\ calls = <<>>
    /\ result = Pending
    /\ earlier = Pending
    /\ response = NoResponse

\* one pass of the loop over links_in_group: the key is chosen, made unique
\* and recorded
LabelLink ==
    /\ pc = "labels"
    /\ link_idx < Len(links_in_group)
    /\ LET link_tag == links_in_group[link_idx + 1]
           link_url == link_tag.href
           quality_key == UniqueKey(QualityKey(LinkText(link_tag), link_idx),
                                    download_links)
       IN download_links' = DictSet(download_links, quality_key, link_url)
    /\ link_idx' = link_idx + 1
    /\ UNCHANGED << pc, instagram_url, configured, get_response, form_data,
                    payload, post_response, item_idx, media_number, media_type,
                    links_in_group, cloudinary_urls, categorized_media,
                    candidates, anchors_seen, failed_uploads, calls, result,
                    earlier, response >>

NextLabels == LabelLink

SpecLabels == InitLabels /\ [][NextLabels]_vars

\* ---------------------------------------------------------------- claims
Items == { categorized_media[i] : i \in 1..Len(categorized_media) }
Dropped == { i \in 1..Len(candidates) : candidates[i] # "kept" }
Kept == { i \in 1..Len(candidates) : candidates[i] = "kept" }
Succeeded == pc = "done" /\ result = Ok
\* the dictionaries of block n: those being filled, or those of its item
DictsOf(n) ==
    IF pc = "links" /\ media_number = n
    THEN { [download_links |-> download_links, cloudinary_urls |-> cloudinary_urls] }
    ELSE { [download_links |-> it.download_links,
            cloudinary_urls |-> it.cloudinary_urls] :
             it \in { x \in Items : x.media_number = n } }
AllDicts ==
    UNION { DictsOf(n) : n \in 1..MaxBlocks }
\* the five characters "&dl=1" close the href
ClosesWithDl(h) ==
    /\ Len(h) >= 5
    /\ << h[Len(h) - 4], h[Len(h) - 3], h[Len(h) - 2], h[Len(h) - 1], h[Len(h)] >>
         = << "&", "d", "l", "=", "1" >>
\* the markers as the code matches them: the phrase letter for letter, the
\* word captcha in any letter case
MarkerAsMatched(text) ==
    \/ "Verify you are human" \in text
    \/ \E p \in text : LowerPhrase(p) = "captcha"
\* the markers with both matched in any letter case
MarkerAnyCase(text) ==
    \E p \in text : LowerPhrase(p) \in { "verify you are human", "captcha" }
\* the phrase priority of the no-media diagnostics
PhrasePriority(text) ==
    LET low == { LowerPhrase(p) : p \in text }
    IN IF "private account" \in low THEN Err(403, "AccessDenied")
       ELSE IF "link you entered is invalid" \in low
       THEN Err(400, "InvalidUpstreamTarget")
       ELSE IF "no media found" \in low THEN Err(404, "NotFound")
       ELSE Err(404, "NoMediaExtracted")

\* C1: a successful response has at least one item, its count is the number
\* of items, and every item has a non-empty download_links; a request whose
\* candidate blocks were all dropped ends in an error, never in a response.
C1_NoEmptySuccess ==
    /\ result = Ok =>
         /\ pc = "done"
         /\ response.media_items # <<>>
         /\ response.total_media_count = Len(response.media_items)
         /\ \A i \in 1..Len(response.media_items) :
              DOMAIN response.media_items[i].download_links # {}
    /\ (pc = "done" /\ post_response.outcome = "ok" /\ Kept = {}) =>
         /\ result.status >= 400
         /\ response = NoResponse
C1_Witness ==
    /\ Succeeded
    /\ \E i \in Dropped : candidates[i] = "no_links"
    /\ Len(response.media_items) >= 1

\* C2 as claimed: the media_number values of a response are exactly 1..N in
\* document order, also when an earlier candidate block was dropped.
C2_Original ==
    Succeeded =>
        \A i \in 1..Len(response.media_items) :
            response.media_items[i].media_number = i
\* C2 as amended: the media_number of an item is the 1-based position of its
\* block among all candidate blocks, so the values rise strictly in document
\* order, are the positions of the surviving blocks, and are 1..N exactly when
\* no dropped block stands before a surviving one.
C2_CandidatePositions ==
    Succeeded =>
        LET items == response.media_items
            N == Len(items)
        IN /\ \A i, j \in 1..N :
                i < j => items[i].media_number < items[j].media_number
           /\ { items[i].media_number : i \in 1..N } = Kept
           /\ (\A i \in 1..N : items[i].media_number = i)
                <=> (\A d \in Dropped : \A k \in Kept : k < d)
C2_Witness ==
    /\ Succeeded
    /\ candidates = << "no_btn_group", "kept" >>
    /\ Len(response.media_items) = 1
    /\ response.media_items[1].media_number = 2

\* the malformed URL strings: empty, no scheme, non-URL text, no host
MalformedUrls == { UrlEmpty, UrlNoScheme, UrlText, UrlNoHost }
\* C3: a request whose URL is malformed (empty, no scheme, non-URL text, no
\* host) fails with InvalidInput (400) and makes no GET, POST or re-host call.
C3_MalformedNoCalls ==
    instagram_url \in MalformedUrls =>
        /\ calls = <<>>
        /\ pc \in { "start", "done" }
        /\ pc = "done" => result = Err(400, "InvalidInput")
C3_Witness ==
    /\ instagram_url = UrlNoScheme
    /\ pc = "done"
    /\ result = Err(400, "InvalidInput")
    /\ calls = <<>>

\* C4: the calls of a request are one GET, then at most one POST, made only
\* after the GET succeeded and all four tokens were scraped, then the
\* re-host calls, made only after the POST succeeded and in anchor order; a
\* failed GET or POST ends the request with an error and no further call.
C4_OrderedCalls ==
    /\ \A i \in 1..Len(calls) :
         /\ calls[i].op = "GET" <=> i = 1
         /\ calls[i].op = "POST" <=> i = 2
         /\ calls[i].op = "UPLOAD" <=> i >= 3
    /\ Len(calls) >= 2 =>
         /\ get_response.outcome = "ok"
         /\ get_response.has_form
         /\ \A k \in 1..4 :
              LET f == RequiredFields[k]
              IN /\ get_response.fields[f].tag
                 /\ get_response.fields[f].hasvalue
                 /\ form_data[f] = get_response.fields[f].value
    /\ Len(calls) >= 3 => post_response.outcome = "ok"
    /\ \A i, j \in 3..Len(calls) :
         i < j =>
            \/ calls[i].media_number < calls[j].media_number
            \/ /\ calls[i].media_number = calls[j].media_number
               /\ calls[i].link_idx < calls[j].link_idx
    /\ get_response.outcome \in { "timeout", "error" } =>
         /\ pc = "done"
         /\ calls = << GetCall >>
         /\ result.status \in { 503, 504 }
    /\ post_response.outcome \in { "timeout", "no_response", "http_error" } =>
         /\ pc = "done"
         /\ calls = << GetCall, PostCall >>
         /\ result.status >= 400
C4_Witness ==
    /\ Succeeded
    /\ Len(calls) = 4
    /\ calls[3].media_number = 1
    /\ calls[4].media_number = 2

\* C5: an anchor whose href ends with "&dl=1" and whose re-host attempt
\* returned no URL keeps its label mapped to the original href in
\* download_links and has no entry in cloudinary_urls, and the request ends
\* in a successful response holding the items as parsed.
C5_FailedRehostKeepsLink ==
    /\ \A f \in failed_uploads :
         /\ ClosesWithDl(f.href)
         /\ DictsOf(f.media_number) # {}
         /\ \A d \in DictsOf(f.media_number) :
              /\ f.quality \in DOMAIN d.download_links
              /\ d.download_links[f.quality] = f.href
              /\ f.quality \notin DOMAIN d.cloudinary_urls
    /\ (pc = "done" /\ failed_uploads # {}) =>
         /\ result = Ok
         /\ response.media_items = categorized_media
C5_Witness ==
    /\ Succeeded
    /\ \E f \in failed_uploads :
         \E it \in Items :
            /\ it.media_number = f.media_number
            /\ f.quality \notin DOMAIN it.cloudinary_urls
            /\ DOMAIN it.cloudinary_urls # {}

\* C6: every key of cloudinary_urls is a key of download_links of the same
\* item whose href ends with "&dl=1", and no upload call is made for an href
\* that does not end with "&dl=1".
C6_OnlyDlRehosted ==
    /\ \A d \in AllDicts :
         \A k \in DOMAIN d.cloudinary_urls :
            /\ k \in DOMAIN d.download_links
            /\ ClosesWithDl(d.download_links[k])
    /\ \A i \in 1..Len(calls) :
         calls[i].op = "UPLOAD" => ClosesWithDl(calls[i].media_url)
C6_Witness ==
    /\ Succeeded
    /\ configured
    /\ \E it \in Items :
         /\ DOMAIN it.cloudinary_urls # {}
         /\ \E k \in DOMAIN it.download_links :
              /\ it.download_links[k] = Href3
              /\ k \notin DOMAIN it.cloudinary_urls

\* the error kinds as the claim groups them
KindGroup(kind) ==
    CASE kind \in { "UpstreamUnavailable", "UpstreamRequestFailed" } -> "Upstream"
      [] kind \in { "NotFound", "NoMediaExtracted" } -> "NotFound"
      [] kind = "InternalInconsistency" -> "Internal"
      [] OTHER -> kind
\* the statuses a kind is reported with
StatusesOf(kind) ==
    CASE kind = "InvalidInput" -> { 400 }
      [] kind = "UpstreamTimeout" -> { 504 }
      [] kind = "UpstreamUnavailable" -> { 503 }
      [] kind = "ChallengeDetected" -> { 403 }
      [] kind = "UpstreamShapeChanged" -> { 500 }
      [] kind = "InternalInconsistency" -> { 500 }
      [] kind = "RateLimited" -> { 429 }
      [] kind = "UpstreamReportedError" -> { 400 }
      [] kind = "AccessDenied" -> { 403 }
      [] kind = "InvalidUpstreamTarget" -> { 400 }
      [] kind = "NotFound" -> { 404 }
      [] kind = "NoMediaExtracted" -> { 404 }
      [] kind = "UpstreamRequestFailed" -> (400..599) \ { 429 }
      [] OTHER -> {}
NoItemSurvived ==
    /\ pc = "done"
    /\ post_response.outcome = "ok"
    /\ categorized_media = <<>>
\* C8 as claimed: whenever no item survives the parsing of a result page,
\* the request fails by the phrase priority, whatever else the page holds.
C8_Original ==
    NoItemSurvived => result = PhrasePriority(post_response.text)
\* C8 as amended: whenever no item survives the parsing of a result page
\* that has no alert element and that has the result container or no
\* challenge marker, the request fails by the phrase priority; a page with
\* an alert element fails with UpstreamReportedError (400) and a page
\* without container and with a challenge marker with ChallengeDetected (403).
C8_PhrasePriority ==
    NoItemSurvived =>
        result =
            IF post_response.alert THEN Err(400, "UpstreamReportedError")
            ELSE IF ~post_response.container /\ MarkerAsMatched(post_response.text)
            THEN Err(403, "ChallengeDetected")
            ELSE PhrasePriority(post_response.text)
C8_Witness ==
    /\ NoItemSurvived
    /\ post_response.container
    /\ Len(candidates) >= 1
    /\ post_response.text = { "Private Account", "no media found" }
    /\ result = Err(403, "AccessDenied")

\* the precedence of the POST errors up to the last case
PostPrecedence(last) ==
    /\ post_response.outcome = "timeout" => result = Err(504, "UpstreamTimeout")
    /\ post_response.outcome = "no_response" =>
         result = Err(503, "UpstreamRequestFailed")
    /\ post_response.outcome = "http_error" =>
         result =
            IF MarkerAsMatched(post_response.text) THEN Err(403, "ChallengeDetected")
            ELSE IF post_response.status = 429 THEN Err(429, "RateLimited")
            ELSE Err(last, "UpstreamRequestFailed")
\* C9 as claimed: timeout gives 504; else a body with a challenge marker
\* gives 403, also at status 429; else status 429 gives 429; else
\* UpstreamRequestFailed carries exactly the upstream status; no response
\* gives 503.
C9_Original == PostPrecedence(post_response.status)
\* C9 as amended: the same precedence, the last case carrying the upstream
\* status when it is 400 or above and 503 when it is below 400.
C9_PostPrecedence ==
    PostPrecedence(IF post_response.status >= 400 THEN post_response.status ELSE 503)
C9_Witness ==
    /\ post_response.outcome = "http_error"
    /\ post_response.status = 429
    /\ MarkerAsMatched(post_response.text)
    /\ result = Err(403, "ChallengeDetected")

\* what the token fetch answers when the body is marked as a challenge or not
FormAbsentRule(marked) ==
    /\ (get_response.outcome = "ok" /\ ~get_response.has_form) =>
         result = IF marked
                  THEN Err(403, "ChallengeDetected")
                  ELSE Err(500, "UpstreamShapeChanged")
    /\ result.kind = "UpstreamShapeChanged" =>
         /\ get_response.outcome = "ok"
         /\ \/ ~get_response.has_form /\ ~marked
            \/ /\ get_response.has_form
               /\ \E k \in 1..4 :
                    \/ ~get_response.fields[RequiredFields[k]].tag
                    \/ ~get_response.fields[RequiredFields[k]].hasvalue
\* C10 as claimed: without the form, a body holding the verification phrase
\* or the word captcha, in any letter case, gives ChallengeDetected (403);
\* UpstreamShapeChanged is given only without form and marker, or for a
\* missing field.
C10_Original == FormAbsentRule(MarkerAnyCase(get_response.text))
\* C10 as amended: the same, the verification phrase matched letter for
\* letter ("Verify you are human") and the word captcha in any letter case.
C10_ChallengeBeforeShape == FormAbsentRule(MarkerAsMatched(get_response.text))
C10_Witness ==
    /\ get_response.outcome = "ok"
    /\ ~get_response.has_form
    /\ get_response.text = { "CAPTCHA" }
    /\ result = Err(403, "ChallengeDetected")

\* the classes whose keywords the spec lists occur in each enumerated text
ClassesNamed(text) ==
    CASE text = TextHD -> { "high_quality", "standard_download" }
      [] text = TextHdLower -> { "high_quality", "standard_download" }
      [] text = TextSD -> { "low_quality" }
      [] text = TextGet -> {}
      [] text = TextDownload -> { "standard_download" }
      [] text = TextLowHD -> { "high_quality", "low_quality" }
      [] text = TextOriginalPreview -> { "original", "thumbnail" }
      [] text = TextThumb -> { "thumbnail" }
      [] text = TextStandard -> { "medium_quality" }
ClassPriority ==
    << "high_quality", "low_quality", "original", "thumbnail", "medium_quality",
       "standard_download" >>
\* the first class of the priority order the text matches, the positional
\* label when it matches none
ClassClaimed(text, position) ==
    IF ClassesNamed(text) = {} THEN "download_option_" \o ToString(position)
    ELSE ClassPriority[CHOOSE k \in 1..6 :
                         /\ ClassPriority[k] \in ClassesNamed(text)
                         /\ \A j \in 1..(k - 1) : ClassPriority[j] \notin ClassesNamed(text)]
\* the class, with the smallest suffix that tells it from the labels taken
Distinguished(class, taken) ==
    IF class \notin taken THEN class
    ELSE LET suffixed(c) == class \o "_" \o ToString(c)
         IN suffixed(CHOOSE c \in 1..(Cardinality(taken) + 1) :
                       /\ suffixed(c) \notin taken
                       /\ \A d \in 1..(c - 1) : suffixed(d) \in taken)
RECURSIVE LabelsClaimed(_, _)
LabelsClaimed(links, n) ==
    IF n = 0 THEN <<>>
    ELSE LET before == LabelsClaimed(links, n - 1)
         IN Append(before,
                   Distinguished(ClassClaimed(links[n].text, n),
                                 { before[i] : i \in 1..(n - 1) }))
\* C11: after any number of anchors of a block, each labelled anchor is
\* recorded under the first class of the priority order its text matches (its
\* positional label when it matches none), with the smallest suffix _1, _2,
\* ... that tells it from the labels recorded before it; the labels are
\* pairwise distinct, download_links has one entry per labelled anchor, and
\* the texts "HD Download", "hd download", "SD" give high_quality,
\* high_quality_1, low_quality.
C11_LabelsByPriority ==
    LET labels == LabelsClaimed(links_in_group, link_idx)
    IN /\ \A i \in 1..link_idx :
            /\ labels[i] \in DOMAIN download_links
            /\ download_links[labels[i]] = links_in_group[i].href
       /\ \A i, j \in 1..link_idx : i # j => labels[i] # labels[j]
       /\ Cardinality(DOMAIN download_links) = link_idx
       /\ /\ link_idx = 3
          /\ [ i \in 1..3 |-> links_in_group[i].text ] = << TextHD, TextHdLower, TextSD >>
          => /\ DOMAIN download_links = { "high_quality", "high_quality_1", "low_quality" }
             /\ download_links["high_quality"] = links_in_group[1].href
             /\ download_links["high_quality_1"] = links_in_group[2].href
             /\ download_links["low_quality"] = links_in_group[3].href
C11_Witness ==
    /\ pc = "labels"
    /\ link_idx = 3
    /\ links_in_group = << Anchor(TextHD, PosHref(1)), Anchor(TextHdLower, PosHref(2)),
                           Anchor(TextSD, PosHref(3)) >>
    /\ download_links["high_quality_1"] = PosHref(2)
    /\ Cardinality(DOMAIN download_links) = 3

\* the form page was fetched and held all four fields with a value attribute
AllScraped ==
    /\ get_response.outcome = "ok"
    /\ get_response.has_form
    /\ \A k \in 1..4 :
         /\ get_response.fields[RequiredFields[k]].tag
         /\ get_response.fields[RequiredFields[k]].hasvalue
PostIssued == \E i \in 1..Len(calls) : calls[i].op = "POST"
\* C12: when the form holds all four fields and the value of _token or of p
\* is the empty string, the extraction succeeds (form_data holds the scraped
\* values and the request goes on to the submission), no POST is issued, and
\* the request ends with InternalInconsistency (500); whenever a POST is
\* issued, its body carries _token and p non-empty and equal to the values
\* scraped.
C12_EmptyTokenNoPost ==
    LET fs == get_response.fields
    IN /\ AllScraped /\ (fs["_token"].value = "" \/ fs["p"].value = "") =>
            /\ pc \in { "submit", "done" }
            /\ \A k \in 1..4 :
                 form_data[RequiredFields[k]] = fs[RequiredFields[k]].value
            /\ ~PostIssued
            /\ calls = << GetCall >>
            /\ post_response = NoPost
            /\ pc = "submit" => result = Pending
            /\ pc = "done" => result = Err(500, "InternalInconsistency")
       /\ PostIssued =>
            /\ AllScraped
            /\ payload._token # ""
            /\ payload.p # ""
            /\ payload._token = fs["_token"].value
            /\ payload.p = fs["p"].value
C12_Witness ==
    /\ pc = "done"
    /\ AllScraped
    /\ get_response.fields["p"].value = ""
    /\ get_response.fields["_token"].value # ""
    /\ form_data["p"] = ""
    /\ calls = << GetCall >>
    /\ result = Err(500, "InternalInconsistency")

====
